---- MODULE Spec2Model ----
(***************************************************************************)
(* Response parsing and request-header layer of the storage client:        *)
(*   azure/storage/_deserialization.py       (header extractor, access     *)
(*                                            policies, service properties)*)
(*   azure/storage/file/_deserialization.py  (listing parsers)             *)
(*   azure/storage/file/_serialization.py    (outgoing header builder)     *)
(*                                                                         *)
(* Conventions.  A Python value that may be None is an option: None is     *)
(* the empty tuple and Some(v) the one-element tuple <<v>>.  An object is  *)
(* a record whose field `class` names its type.  A call either returns a   *)
(* value (Ok; what a parser returns is an option, since it may return its  *)
(* argument, which may be None) or raises (Err, with the exception's       *)
(* type).  An XML element is a record [tag, text, children]; text is an    *)
(* option, as Element.text is None for an element without character data.  *)
(* A dict is a function from its keys.                                     *)
(***************************************************************************)
EXTENDS Naturals, Sequences, FiniteSets, TLC

VARIABLES
    op,         \* name of the last parser called ("none" before any call)
    arg,        \* the argument of that call
    result,     \* what that call returned or raised
    table,      \* the module-level GET_PROPERTIES_ATTRIBUTE_MAP
    heap,       \* the objects allocated by the calls so far, by address
    request,    \* the request handed to _update_storage_file_header
    pc,         \* position inside _update_storage_file_header (0: not running)
    updated,    \* the request went through _update_storage_header
    signed,     \* for each sign_request call, the request the signer was given
    returned    \* the value _update_storage_file_header returned

vars == <<op, arg, result, table, heap, request, pc, updated, signed, returned>>

xmlVars == <<op, arg, result>>
propVars == <<table, heap>>
headerVars == <<request, pc, updated, signed, returned>>

----------------------------------------------------------------------------
(* Bounds of the model *)

MaxShares == 2
MaxEntries == 3
MaxRanges == 2
MaxIdentifiers == 2
MaxRules == 2
MaxHeaders == 2
MaxObjects == 5
MaxRequestHeaders == 2

----------------------------------------------------------------------------
(* Python values *)

None == <<>>
Some(v) == <<v>>

Ok(v) == [ok |-> TRUE, val |-> v, exc |-> "none"]
Err(e) == [ok |-> FALSE, val |-> None, exc |-> e]

\* What a call leaves in `result`.
Returned(v) == [kind |-> "returned", value |-> v, exc |-> "none"]
Raised(e) == [kind |-> "raised", value |-> None, exc |-> e]
Outcome(r) == IF r.ok THEN Returned(r.val) ELSE Raised(r.exc)

\* All sequences over S of length at most n.
SeqsUpTo(S, n) == UNION {[1..k -> S] : k \in 0..n}

\* d[k] = v on a dict.
DictSet(d, k, v) == [x \in (DOMAIN d) \cup {k} |-> IF x = k THEN v ELSE d[x]]

----------------------------------------------------------------------------
(* xml.etree.ElementTree *)

Element(tag, text, children) == [tag |-> tag, text |-> text, children |-> children]

\* Element.findall(tag): the direct children with that tag, in document order.
findall(element, tag) == SelectSeq(element.children, LAMBDA c : c.tag = tag)

\* Element.find(tag): the first such child, or None.
find(element, tag) ==
    LET found == findall(element, tag)
    IN  IF found = <<>> THEN None ELSE Some(found[1])

\* Element.findtext(tag): None without such a child, '' when its text is None.
findtext(element, tag) ==
    LET child == find(element, tag)
    IN  IF child = None THEN None
        ELSE IF child[1].text = None THEN Some("") ELSE child[1].text

\* ETree.fromstring(text): the root element; a TypeError on None, a ParseError
\* on text that is not well-formed.
fromstring(text) ==
    IF text = None THEN Err("TypeError")
    ELSE IF text[1].wellformed THEN Ok(text[1].root) ELSE Err("ParseError")

----------------------------------------------------------------------------
(* Conversions *)

\* The decimal strings of the model and the integers int() makes of them.
IntLiterals == [s \in {"0", "5", "15", "511"} |->
                   CASE s = "0" -> 0 [] s = "5" -> 5 [] s = "15" -> 15 [] s = "511" -> 511]

\* int(value): TypeError on None, ValueError on a string that is no number.
int(value) ==
    IF value = None THEN Err("TypeError")
    ELSE IF value[1] \in DOMAIN IntLiterals THEN Ok(IntLiterals[value[1]])
    ELSE Err("ValueError")

\* The timestamps of the model and the datetime values parser.parse makes of them.
Timestamps == {"Mon, 01 Jan 2018 00:00:00 GMT", "2018-01-02T00:00:00Z"}
datetime(s) == [datetime |-> s]

\* dateutil's parser.parse(timestr): raises on None and on a string holding no date.
parser_parse(timestr) ==
    IF timestr = None THEN Err("TypeError")
    ELSE IF timestr[1] \in Timestamps THEN Ok(datetime(timestr[1]))
    ELSE Err("ValueError")

\* `value or None`: None and the empty string are both falsy.
or_None(value) == IF value = None \/ value = Some("") THEN None ELSE value

----------------------------------------------------------------------------
(* Listing parsers: azure/storage/file/_deserialization.py *)

\* Faulty variant: the guard without its second disjunct
body_absent_response_only(response) == response = None

\* The guard `response is None or response.body is None` of the four parsers.
body_absent(response) == response = None \/ response[1].body = None

\* models.Share(): name, metadata, and a ShareProperties, all fields None.
Share == [name |-> None, metadata |-> None,
          properties |-> [last_modified |-> None, etag |-> None, quota |-> None]]

\* The metadata loop: share.metadata[metadata_element.tag] = metadata_element.text
RECURSIVE share_metadata(_, _)
share_metadata(elements, metadata) ==
    IF elements = <<>> THEN metadata
    ELSE share_metadata(Tail(elements),
                        DictSet(metadata, Head(elements).tag, Head(elements).text))

\* Faulty variant: the loop body with a quota conversion that lets None through
convert_share_lenient(share_element) ==
    LET properties_element == find(share_element, "Properties")
        metadata_root_element == find(share_element, "Metadata")
    IN  IF properties_element = None THEN Err("AttributeError")
        ELSE LET last_modified == parser_parse(findtext(properties_element[1], "Last-Modified"))
                 quota == findtext(properties_element[1], "Quota")
             IN  IF ~last_modified.ok THEN Err(last_modified.exc)
                 ELSE IF quota /= None /\ ~int(quota).ok THEN Err(int(quota).exc)
                 ELSE Ok([name |-> findtext(share_element, "Name"),
                          metadata |-> IF metadata_root_element /= None
                                       THEN Some(share_metadata(
                                                metadata_root_element[1].children, <<>>))
                                       ELSE None,
                          properties |-> [last_modified |-> Some(last_modified.val),
                                          etag |-> findtext(properties_element[1], "Etag"),
                                          quota |-> IF quota = None THEN None
                                                    ELSE Some(int(quota).val)]])

\* The body of the loop over the Share elements.
convert_share(share_element) ==
    LET name == findtext(share_element, "Name")
        metadata_root_element == find(share_element, "Metadata")
        metadata == IF metadata_root_element /= None
                    THEN Some(share_metadata(metadata_root_element[1].children, <<>>))
                    ELSE Share.metadata
        properties_element == find(share_element, "Properties")
    IN  IF properties_element = None THEN Err("AttributeError")
        ELSE LET last_modified == parser_parse(findtext(properties_element[1], "Last-Modified"))
                 etag == findtext(properties_element[1], "Etag")
                 quota == int(findtext(properties_element[1], "Quota"))
             IN  IF ~last_modified.ok THEN Err(last_modified.exc)
                 ELSE IF ~quota.ok THEN Err(quota.exc)
                 ELSE Ok([name |-> name, metadata |-> metadata,
                          properties |-> [last_modified |-> Some(last_modified.val),
                                          etag |-> etag,
                                          quota |-> Some(quota.val)]])

\* `for share_element in ...: ... shares.append(share)`; stops at the first
\* element whose conversion raises.
RECURSIVE convert_shares(_, _)
convert_shares(elements, shares) ==
    IF elements = <<>> THEN Ok(shares)
    ELSE LET share == convert_share(Head(elements))
         IN  IF ~share.ok THEN Err(share.exc)
             ELSE convert_shares(Tail(elements), Append(shares, share.val))

\* Faulty variant: the marker without `or None`
next_marker_raw(list_element) == findtext(list_element, "NextMarker")

\* `next_marker = list_element.findtext('NextMarker') or None`
next_marker_of(list_element) == or_None(findtext(list_element, "NextMarker"))

convert_xml_to_shares(response) ==
    IF body_absent(response) THEN Ok(response)
    ELSE LET list_element == fromstring(response[1].body)
         IN  IF ~list_element.ok THEN Err(list_element.exc)
             ELSE LET next_marker == next_marker_of(list_element.val)
                      shares_element == find(list_element.val, "Shares")
                  IN  IF shares_element = None THEN Err("AttributeError")
                      ELSE LET shares == convert_shares(findall(shares_element[1], "Share"), <<>>)
                           IN  IF ~shares.ok THEN Err(shares.exc)
                               ELSE Ok(Some([class |-> "_list", list |-> shares.val,
                                             next_marker |-> next_marker]))

\* models.File() and models.Directory(): every field None.
File == [name |-> None, properties |-> [content_length |-> None]]
Directory == [name |-> None]

\* The body of the loop over the File elements.
convert_file(file_element) ==
    LET name == findtext(file_element, "Name")
        properties_element == find(file_element, "Properties")
    IN  IF properties_element = None THEN Err("AttributeError")
        ELSE LET content_length == int(findtext(properties_element[1], "Content-Length"))
             IN  IF ~content_length.ok THEN Err(content_length.exc)
                 ELSE Ok([name |-> name,
                          properties |-> [content_length |-> Some(content_length.val)]])

\* Faulty variant: the loop inserting each file at the front
RECURSIVE convert_files_front(_, _)
convert_files_front(elements, files) ==
    IF elements = <<>> THEN Ok(files)
    ELSE LET file == convert_file(Head(elements))
         IN  IF ~file.ok THEN Err(file.exc)
             ELSE convert_files_front(Tail(elements), <<file.val>> \o files)

\* `for file_element in ...: ... entries.files.append(file)`
RECURSIVE convert_files(_, _)
convert_files(elements, files) ==
    IF elements = <<>> THEN Ok(files)
    ELSE LET file == convert_file(Head(elements))
         IN  IF ~file.ok THEN Err(file.exc)
             ELSE convert_files(Tail(elements), Append(files, file.val))

\* `for directory_element in ...: ... entries.directories.append(directory)`
RECURSIVE convert_directories(_, _)
convert_directories(elements, directories) ==
    IF elements = <<>> THEN directories
    ELSE convert_directories(Tail(elements),
             Append(directories, [name |-> findtext(Head(elements), "Name")]))

convert_xml_to_directories_and_files(response) ==
    IF body_absent(response) THEN Ok(response)
    ELSE LET list_element == fromstring(response[1].body)
         IN  IF ~list_element.ok THEN Err(list_element.exc)
             ELSE LET next_marker == next_marker_of(list_element.val)
                      entries_element == find(list_element.val, "Entries")
                  IN  IF entries_element = None THEN Err("AttributeError")
                      ELSE LET files == convert_files(findall(entries_element[1], "File"), <<>>)
                               directories ==
                                   convert_directories(findall(entries_element[1], "Directory"), <<>>)
                           IN  IF ~files.ok THEN Err(files.exc)
                               ELSE Ok(Some([class |-> "FileAndDirectoryResults",
                                             files |-> files.val,
                                             directories |-> directories,
                                             next_marker |-> next_marker]))

\* The body of the loop over the Range elements.
convert_range(range_element) ==
    LET start == int(findtext(range_element, "Start"))
        end == int(findtext(range_element, "End"))
    IN  IF ~start.ok THEN Err(start.exc)
        ELSE IF ~end.ok THEN Err(end.exc)
        ELSE Ok([start |-> Some(start.val), end |-> Some(end.val)])

\* `for range_element in ...: ... ranges.append(range)`
RECURSIVE convert_ranges(_, _)
convert_ranges(elements, ranges) ==
    IF elements = <<>> THEN Ok(ranges)
    ELSE LET range == convert_range(Head(elements))
         IN  IF ~range.ok THEN Err(range.exc)
             ELSE convert_ranges(Tail(elements), Append(ranges, range.val))

convert_xml_to_ranges(response) ==
    IF body_absent(response) THEN Ok(response)
    ELSE LET ranges_element == fromstring(response[1].body)
         IN  IF ~ranges_element.ok THEN Err(ranges_element.exc)
             ELSE LET ranges == convert_ranges(findall(ranges_element.val, "Range"), <<>>)
                  IN  IF ~ranges.ok THEN Err(ranges.exc)
                      ELSE Ok(Some([class |-> "list", list |-> ranges.val]))

convert_xml_to_share_stats(response) ==
    IF body_absent(response) THEN Ok(response)
    ELSE LET share_stats_element == fromstring(response[1].body)
         IN  IF ~share_stats_element.ok THEN Err(share_stats_element.exc)
             ELSE LET share_usage == int(findtext(share_stats_element.val, "ShareUsage"))
                  IN  IF ~share_usage.ok THEN Err(share_usage.exc)
                      ELSE Ok(Some([class |-> "ShareStats",
                                    share_usage |-> Some(share_usage.val)]))

----------------------------------------------------------------------------
(* Header property extractor: azure/storage/_deserialization.py            *)
(* A header name is a sequence of pieces, 'x-ms-meta-foo' being            *)
(* <<"x-ms-meta-", "foo">>, so that startswith and slicing act on it.      *)

\* _int_or_none(value): value if value is None else int(value)
int_or_none(value) ==
    IF value = None THEN Ok(None)
    ELSE IF int(value).ok THEN Ok(Some(int(value).val)) ELSE Err(int(value).exc)

\* _common_conversion._str_or_none(value): None for None, else str(value)
str_or_none(value) == value

\* Each entry: (sub-record or None, attribute, conversion).
GET_PROPERTIES_ATTRIBUTE_MAP ==
    LET entries == {
            <<"last-modified", None, "last_modified", "parser.parse">>,
            <<"etag", None, "etag", "_str_or_none">>,
            <<"x-ms-blob-type", None, "blob_type", "_str_or_none">>,
            <<"content-length", None, "content_length", "_int_or_none">>,
            <<"x-ms-blob-sequence-number", None, "page_blob_sequence_number", "_int_or_none">>,
            <<"x-ms-blob-committed-block-count", None,
              "append_blob_committed_block_count", "_int_or_none">>,
            <<"content-type", Some("content_settings"), "content_type", "_str_or_none">>,
            <<"cache-control", Some("content_settings"), "cache_control", "_str_or_none">>,
            <<"content-encoding", Some("content_settings"), "content_encoding", "_str_or_none">>,
            <<"content-disposition", Some("content_settings"),
              "content_disposition", "_str_or_none">>,
            <<"content-language", Some("content_settings"), "content_language", "_str_or_none">>,
            <<"content-md5", Some("content_settings"), "content_md5", "_str_or_none">>,
            <<"x-ms-lease-status", Some("lease"), "status", "_str_or_none">>,
            <<"x-ms-lease-state", Some("lease"), "state", "_str_or_none">>,
            <<"x-ms-lease-duration", Some("lease"), "duration", "_str_or_none">>,
            <<"x-ms-copy-id", Some("copy"), "id", "_str_or_none">>,
            <<"x-ms-copy-source", Some("copy"), "source", "_str_or_none">>,
            <<"x-ms-copy-status", Some("copy"), "status", "_str_or_none">>,
            <<"x-ms-copy-progress", Some("copy"), "progress", "_str_or_none">>,
            <<"x-ms-copy-completion-time", Some("copy"), "completion_time", "_str_or_none">>,
            <<"x-ms-copy-status-description", Some("copy"),
              "status_description", "_str_or_none">>}
    IN  [key \in {<<e[1]>> : e \in entries} |->
            LET e == CHOOSE e \in entries : <<e[1]>> = key IN <<e[2], e[3], e[4]>>]

\* info[2](value)
convert(conversion, value) ==
    CASE conversion = "parser.parse" ->
            IF parser_parse(value).ok THEN Ok(Some(parser_parse(value).val))
            ELSE Err(parser_parse(value).exc)
      [] conversion = "_int_or_none" -> int_or_none(value)
      [] conversion = "_str_or_none" -> Ok(str_or_none(value))

\* key.startswith(prefix)
startswith(key, prefix) ==
    Len(key) >= Len(prefix) /\ SubSeq(key, 1, Len(prefix)) = prefix

\* properties_class(): no attribute set, the sub-records allocated.
properties_class ==
    [class |-> "Properties", attrs |-> <<>>,
     content_settings |-> <<>>, lease |-> <<>>, copy |-> <<>>]

\* The guard `response is None and response.headers is not None`: the right
\* operand is evaluated exactly when response is None, and then raises.
guard(response) ==
    IF response = None THEN Err("AttributeError") ELSE Ok(response = None)

\* The key the metadata entry of a header is stored under.
metadata_key(key) == key

\* One pass of the loop over response.headers, on the objects at the
\* addresses props and metadata of the heap h.
parse_header(h, props, metadata, key, value) ==
    IF key \in DOMAIN table
    THEN LET info == table[key]
             converted == convert(info[3], value)
         IN  IF ~converted.ok THEN Err(converted.exc)
             ELSE IF info[1] = None
             THEN Ok([h EXCEPT ![props].attrs = DictSet(@, info[2], converted.val)])
             ELSE Ok([h EXCEPT ![props][info[1][1]] = DictSet(@, info[2], converted.val)])
    ELSE IF startswith(key, <<"x-ms-meta-">>)
    THEN Ok([h EXCEPT ![metadata].dict = DictSet(@, metadata_key(key), str_or_none(value))])
    ELSE Ok(h)

\* `for key, value in response.headers:`; what a pass wrote before a later
\* pass raises stays written.
RECURSIVE parse_headers(_, _, _, _)
parse_headers(h, props, metadata, headers) ==
    IF headers = <<>> THEN [ok |-> TRUE, heap |-> h, exc |-> "none"]
    ELSE LET pass == parse_header(h, props, metadata, Head(headers)[1], Head(headers)[2])
         IN  IF ~pass.ok THEN [ok |-> FALSE, heap |-> h, exc |-> pass.exc]
             ELSE parse_headers(pass.val, props, metadata, Tail(headers))

\* Faulty variant: one dict for every call, as a mutable default argument would be
new_dict_shared(h, after) ==
    IF \E a \in DOMAIN h : h[a].class = "dict"
    THEN CHOOSE a \in DOMAIN h : h[a].class = "dict"
    ELSE after + 1

\* `metadata = {}`: the address of a new dict, after the objects allocated so far.
new_dict(h, after) == after + 1

\* _parse_properties(response, properties_class) on the heap h:
\* [ok, heap, exc, props, metadata], props and metadata being addresses
\* (0 for None).  Iterating headers that are None raises a TypeError.
\* The objects a call allocated are unreachable once it raised.
parse_properties(h, response) ==
    LET props == Len(h) + 1
        metadata == new_dict(h, props)
        allocated == IF metadata > props
                     THEN h \o <<properties_class, [class |-> "dict", dict |-> <<>>]>>
                     ELSE h \o <<properties_class>>
    IN  IF ~guard(response).ok
        THEN [ok |-> FALSE, heap |-> h, exc |-> guard(response).exc, props |-> 0, metadata |-> 0]
        ELSE IF guard(response).val
        THEN [ok |-> TRUE, heap |-> h, exc |-> "none", props |-> 0, metadata |-> 0]
        ELSE IF response[1].headers = None
        THEN [ok |-> FALSE, heap |-> h, exc |-> "TypeError", props |-> 0, metadata |-> 0]
        ELSE LET loop == parse_headers(allocated, props, metadata, response[1].headers[1])
             IN  IF loop.ok
                 THEN [ok |-> TRUE, heap |-> loop.heap, exc |-> "none",
                       props |-> props, metadata |-> metadata]
                 ELSE [ok |-> FALSE, heap |-> SubSeq(loop.heap, 1, Len(h)), exc |-> loop.exc,
                       props |-> 0, metadata |-> 0]

\* file/_deserialization.py: _parse_file(response)
parse_file(h, response) ==
    LET parsed == parse_properties(h, response)
    IN  IF ~parsed.ok THEN [parsed EXCEPT !.props = 0] @@ [file |-> 0]
        ELSE [parsed EXCEPT
                !.heap = Append(@, [class |-> "File", content |-> response[1].body,
                                    properties |-> parsed.props,
                                    metadata |-> parsed.metadata])]
             @@ [file |-> Len(parsed.heap) + 1]

----------------------------------------------------------------------------
(* Access policies and service properties: azure/storage/_deserialization.py *)

\* `element.find(tag).text`: an AttributeError when find returns None.
find_text(element, tag) ==
    LET child == find(element, tag)
    IN  IF child = None THEN Err("AttributeError") ELSE Ok(child[1].text)

\* models.AccessPolicy(): start, expiry and permission None.
AccessPolicy == [start |-> None, expiry |-> None, permission |-> None]

\* Faulty variant: Permission read like a required child: find('Permission').text
convert_access_policy_strict(access_policy_element) ==
    LET start_element == find(access_policy_element, "Start")
        expiry_element == find(access_policy_element, "Expiry")
        start == IF start_element /= None
                 THEN parser_parse(start_element[1].text) ELSE Ok(None)
        expiry == IF expiry_element /= None
                  THEN parser_parse(expiry_element[1].text) ELSE Ok(None)
        permission == find_text(access_policy_element, "Permission")
    IN  IF ~start.ok THEN Err(start.exc)
        ELSE IF ~expiry.ok THEN Err(expiry.exc)
        ELSE IF ~permission.ok THEN Err(permission.exc)
        ELSE Ok([start |-> IF start_element /= None THEN Some(start.val) ELSE None,
                 expiry |-> IF expiry_element /= None THEN Some(expiry.val) ELSE None,
                 permission |-> permission.val])

\* The access policy of one SignedIdentifier: Start and Expiry parsed when
\* their elements are there, Permission read with findtext.
convert_access_policy(access_policy_element) ==
    LET start_element == find(access_policy_element, "Start")
        expiry_element == find(access_policy_element, "Expiry")
        start == IF start_element /= None
                 THEN parser_parse(start_element[1].text) ELSE Ok(None)
        expiry == IF expiry_element /= None
                  THEN parser_parse(expiry_element[1].text) ELSE Ok(None)
    IN  IF ~start.ok THEN Err(start.exc)
        ELSE IF ~expiry.ok THEN Err(expiry.exc)
        ELSE Ok([start |-> IF start_element /= None THEN Some(start.val)
                           ELSE AccessPolicy.start,
                 expiry |-> IF expiry_element /= None THEN Some(expiry.val)
                            ELSE AccessPolicy.expiry,
                 permission |-> findtext(access_policy_element, "Permission")])

\* `for signed_identifier_element in ...: ... signed_identifiers[id] = access_policy`
RECURSIVE convert_signed_identifiers(_, _)
convert_signed_identifiers(elements, signed_identifiers) ==
    IF elements = <<>> THEN Ok(signed_identifiers)
    ELSE LET id == find_text(Head(elements), "Id")
             access_policy_element == find(Head(elements), "AccessPolicy")
         IN  IF ~id.ok THEN Err(id.exc)
             ELSE IF access_policy_element = None THEN Err("AttributeError")
             ELSE LET access_policy == convert_access_policy(access_policy_element[1])
                  IN  IF ~access_policy.ok THEN Err(access_policy.exc)
                      ELSE convert_signed_identifiers(Tail(elements),
                               DictSet(signed_identifiers, id.val, access_policy.val))

convert_xml_to_signed_identifiers(xml) ==
    LET list_element == fromstring(xml)
    IN  IF ~list_element.ok THEN Err(list_element.exc)
        ELSE LET signed_identifiers ==
                     convert_signed_identifiers(
                         findall(list_element.val, "SignedIdentifier"), <<>>)
             IN  IF ~signed_identifiers.ok THEN Err(signed_identifiers.exc)
                 ELSE Ok(Some([class |-> "dict", dict |-> signed_identifiers.val]))

\* str.lower() on the boolean texts of the model.
lower == [s \in {"true", "True", "TRUE", "false", "False"} |->
             IF s \in {"true", "True", "TRUE"} THEN "true" ELSE "false"]

\* _bool(value): value.lower() == 'true'; an AttributeError on None.
bool(value) ==
    IF value = None THEN Err("AttributeError") ELSE Ok(lower[value[1]] = "true")

\* str.split(',') on the comma-separated texts of the model.
split == [s \in {"a.com,b.com", "*", "GET,PUT", "x-ms-meta-data*,x-ms-request-id"} |->
             CASE s = "a.com,b.com" -> <<"a.com", "b.com">>
               [] s = "*" -> <<"*">>
               [] s = "GET,PUT" -> <<"GET", "PUT">>
               [] s = "x-ms-meta-data*,x-ms-request-id" ->
                      <<"x-ms-meta-data*", "x-ms-request-id">>]

\* `element.find(tag).text.split(',')`
find_text_split(element, tag) ==
    LET text == find_text(element, tag)
    IN  IF ~text.ok THEN Err(text.exc)
        ELSE IF text.val = None THEN Err("AttributeError")
        ELSE Ok(split[text.val[1]])

\* `_bool(element.find(tag).text)`
find_text_bool(element, tag) ==
    LET text == find_text(element, tag)
    IN  IF ~text.ok THEN Err(text.exc) ELSE bool(text.val)

\* models.RetentionPolicy(), Logging(), Metrics(), ServiceProperties()
RetentionPolicy == [enabled |-> Some(FALSE), days |-> None]
Logging == [version |-> None, delete |-> None, read |-> None, write |-> None,
            retention_policy |-> RetentionPolicy]
Metrics == [version |-> None, enabled |-> None, include_apis |-> None,
            retention_policy |-> RetentionPolicy]
ServiceProperties == [class |-> "ServiceProperties", logging |-> None, hour_metrics |-> None,
                      minute_metrics |-> None, cors |-> None, target_version |-> None]

\* models.CorsRule(allowed_origins, allowed_methods, max_age_in_seconds)
CorsRule(allowed_origins, allowed_methods, max_age_in_seconds) ==
    [allowed_origins |-> allowed_origins, allowed_methods |-> allowed_methods,
     max_age_in_seconds |-> max_age_in_seconds,
     exposed_headers |-> None, allowed_headers |-> None]

\* xml is what find('RetentionPolicy') returned: an option.
convert_xml_to_retention_policy(xml, retention_policy) ==
    IF xml = None THEN Err("AttributeError")
    ELSE LET enabled == find_text_bool(xml[1], "Enabled")
             days_element == find(xml[1], "Days")
             days == IF days_element /= None THEN int(days_element[1].text) ELSE Ok(0)
         IN  IF ~enabled.ok THEN Err(enabled.exc)
             ELSE IF ~days.ok THEN Err(days.exc)
             ELSE Ok([enabled |-> Some(enabled.val),
                      days |-> IF days_element /= None THEN Some(days.val)
                               ELSE retention_policy.days])

convert_xml_to_metrics(xml, metrics) ==
    LET version == find_text(xml, "Version")
        enabled == find_text_bool(xml, "Enabled")
        include_apis_element == find(xml, "IncludeAPIs")
        include_apis == IF include_apis_element /= None
                        THEN bool(include_apis_element[1].text) ELSE Ok(FALSE)
        retention_policy ==
            convert_xml_to_retention_policy(find(xml, "RetentionPolicy"), metrics.retention_policy)
    IN  IF ~version.ok THEN Err(version.exc)
        ELSE IF ~enabled.ok THEN Err(enabled.exc)
        ELSE IF ~include_apis.ok THEN Err(include_apis.exc)
        ELSE IF ~retention_policy.ok THEN Err(retention_policy.exc)
        ELSE Ok([version |-> version.val, enabled |-> Some(enabled.val),
                 include_apis |-> IF include_apis_element /= None THEN Some(include_apis.val)
                                  ELSE metrics.include_apis,
                 retention_policy |-> retention_policy.val])

\* The Logging block of _convert_xml_to_service_properties.
convert_logging(logging) ==
    LET version == find_text(logging, "Version")
        delete == find_text_bool(logging, "Delete")
        read == find_text_bool(logging, "Read")
        write == find_text_bool(logging, "Write")
        retention_policy ==
            convert_xml_to_retention_policy(find(logging, "RetentionPolicy"),
                                            Logging.retention_policy)
    IN  IF ~version.ok THEN Err(version.exc)
        ELSE IF ~delete.ok THEN Err(delete.exc)
        ELSE IF ~read.ok THEN Err(read.exc)
        ELSE IF ~write.ok THEN Err(write.exc)
        ELSE IF ~retention_policy.ok THEN Err(retention_policy.exc)
        ELSE Ok([version |-> version.val, delete |-> Some(delete.val),
                 read |-> Some(read.val), write |-> Some(write.val),
                 retention_policy |-> retention_policy.val])

\* The body of the loop over the CorsRule elements.
convert_cors_rule(rule) ==
    LET allowed_origins == find_text_split(rule, "AllowedOrigins")
        allowed_methods == find_text_split(rule, "AllowedMethods")
        max_age == find_text(rule, "MaxAgeInSeconds")
        max_age_in_seconds == int(max_age.val)
        exposed_headers == find_text(rule, "ExposedHeaders")
        allowed_headers == find_text(rule, "AllowedHeaders")
    IN  IF ~allowed_origins.ok THEN Err(allowed_origins.exc)
        ELSE IF ~allowed_methods.ok THEN Err(allowed_methods.exc)
        ELSE IF ~max_age.ok THEN Err(max_age.exc)
        ELSE IF ~max_age_in_seconds.ok THEN Err(max_age_in_seconds.exc)
        ELSE LET cors_rule == CorsRule(allowed_origins.val, allowed_methods.val,
                                       Some(max_age_in_seconds.val))
             IN  IF ~exposed_headers.ok THEN Err(exposed_headers.exc)
                 ELSE IF ~allowed_headers.ok THEN Err(allowed_headers.exc)
                 ELSE Ok([cors_rule EXCEPT
                            !.exposed_headers =
                                IF exposed_headers.val /= None
                                THEN Some(split[exposed_headers.val[1]]) ELSE @,
                            !.allowed_headers =
                                IF allowed_headers.val /= None
                                THEN Some(split[allowed_headers.val[1]]) ELSE @])

\* `for rule in cors.findall('CorsRule'): ... service_properties.cors.append(cors_rule)`
RECURSIVE convert_cors_rules(_, _)
convert_cors_rules(rules, cors) ==
    IF rules = <<>> THEN Ok(cors)
    ELSE LET cors_rule == convert_cors_rule(Head(rules))
         IN  IF ~cors_rule.ok THEN Err(cors_rule.exc)
             ELSE convert_cors_rules(Tail(rules), Append(cors, cors_rule.val))

convert_xml_to_service_properties(xml) ==
    LET service_properties_element == fromstring(xml)
    IN  IF ~service_properties_element.ok THEN Err(service_properties_element.exc)
        ELSE
        LET root == service_properties_element.val
            logging_element == find(root, "Logging")
            hour_metrics_element == find(root, "HourMetrics")
            minute_metrics_element == find(root, "MinuteMetrics")
            cors_element == find(root, "Cors")
            target_version == find(root, "DefaultServiceVersion")
            logging == IF logging_element /= None
                       THEN convert_logging(logging_element[1]) ELSE Ok(None)
            hour_metrics == IF hour_metrics_element /= None
                            THEN convert_xml_to_metrics(hour_metrics_element[1], Metrics)
                            ELSE Ok(None)
            minute_metrics == IF minute_metrics_element /= None
                              THEN convert_xml_to_metrics(minute_metrics_element[1], Metrics)
                              ELSE Ok(None)
            cors == IF cors_element /= None
                    THEN convert_cors_rules(findall(cors_element[1], "CorsRule"), <<>>)
                    ELSE Ok(None)
        IN  IF ~logging.ok THEN Err(logging.exc)
            ELSE IF ~hour_metrics.ok THEN Err(hour_metrics.exc)
            ELSE IF ~minute_metrics.ok THEN Err(minute_metrics.exc)
            ELSE IF ~cors.ok THEN Err(cors.exc)
            ELSE Ok(Some([ServiceProperties EXCEPT
                     !.logging = IF logging_element /= None THEN Some(logging.val) ELSE @,
                     !.hour_metrics =
                         IF hour_metrics_element /= None THEN Some(hour_metrics.val) ELSE @,
                     !.minute_metrics =
                         IF minute_metrics_element /= None THEN Some(minute_metrics.val) ELSE @,
                     !.cors = IF cors_element /= None THEN Some(cors.val) ELSE @,
                     !.target_version =
                         IF target_version /= None THEN target_version[1].text ELSE @]))

----------------------------------------------------------------------------
(* The documents and responses the listing parsers are called with *)

Leaf(tag, text) == Element(tag, Some(text), <<>>)
Empty(tag) == Element(tag, None, <<>>)
\* <<e>> unless e is the child a document leaves out.
Unless(missing, e) == IF e.tag = missing THEN <<>> ELSE <<e>>

\* What a listed element may lack: nothing, or one of its children.
ShareLacks == {"nothing", "Name", "Metadata", "Properties", "Last-Modified", "Etag", "Quota"}
FileLacks == {"nothing", "Name", "Properties", "Content-Length"}
DirectoryLacks == {"nothing", "Name"}
RangeLacks == {"nothing", "Start", "End"}
Names == {"a", "b"}

ShareElement(name, lacks) ==
    Element("Share", None,
        Unless(lacks, Leaf("Name", name))
        \o Unless(lacks, Element("Properties", None,
               Unless(lacks, Leaf("Last-Modified", "Mon, 01 Jan 2018 00:00:00 GMT"))
               \o Unless(lacks, Leaf("Etag", "0x8D5"))
               \o Unless(lacks, Leaf("Quota", "5"))))
        \o Unless(lacks, Element("Metadata", None, <<Leaf("owner", name), Empty("tag")>>)))

ShareElements ==
    {ShareElement("a", lacks) : lacks \in ShareLacks} \cup {ShareElement("b", "nothing")}

FileElement(name, lacks) ==
    Element("File", None,
        Unless(lacks, Leaf("Name", name))
        \o Unless(lacks, Element("Properties", None,
               Unless(lacks, Leaf("Content-Length", "511")))))

DirectoryElement(name, lacks) == Element("Directory", None, Unless(lacks, Leaf("Name", name)))

EntryElements ==
    {FileElement("a", lacks) : lacks \in FileLacks}
    \cup {FileElement("b", "nothing")}
    \cup {DirectoryElement("a", lacks) : lacks \in DirectoryLacks}
    \cup {DirectoryElement("b", "nothing")}
    \cup {Empty("Other")}

RangeElement(start, lacks) ==
    Element("Range", None, Unless(lacks, Leaf("Start", start)) \o Unless(lacks, Leaf("End", "511")))

RangeElements ==
    {RangeElement("0", lacks) : lacks \in RangeLacks}
    \cup {RangeElement("5", "nothing"), RangeElement("x", "nothing")}

\* No NextMarker element, <NextMarker />, <NextMarker>abc</NextMarker>.
NextMarkers == {<<>>, <<Empty("NextMarker")>>, <<Leaf("NextMarker", "abc")>>}

SharesDocuments ==
    {Element("EnumerationResults", None, <<Element("Shares", None, shares)>> \o marker) :
        shares \in SeqsUpTo(ShareElements, MaxShares), marker \in NextMarkers}
    \cup {Element("EnumerationResults", None, marker) : marker \in NextMarkers}

EntriesDocuments ==
    {Element("EnumerationResults", None, <<Element("Entries", None, entries)>> \o marker) :
        entries \in SeqsUpTo(EntryElements, MaxEntries), marker \in NextMarkers}
    \cup {Element("EnumerationResults", None, marker) : marker \in NextMarkers}

RangesDocuments ==
    {Element("Ranges", None, ranges) : ranges \in SeqsUpTo(RangeElements, MaxRanges)}

ShareStatsDocuments ==
    {Element("ShareStats", None, usage) :
        usage \in {<<>>, <<Leaf("ShareUsage", "15")>>, <<Empty("ShareUsage")>>}}

\* A well-formed body is modelled by the tree it parses to.
Body(root) == [wellformed |-> TRUE, root |-> root]
Malformed == [wellformed |-> FALSE, root |-> Empty("")]

Response(headers, body) == [class |-> "Response", headers |-> headers, body |-> body]
ResponseHeaders == {None, Some(<<>>), Some(<< <<"etag", "0x8D5">> >>)}

\* No response, a response without a body, a response with a body.
Responses(documents) ==
    {None}
    \cup {Some(Response(headers, None)) : headers \in ResponseHeaders}
    \cup {Some(Response(Some(<<>>), Some(Malformed)))}
    \cup {Some(Response(Some(<<>>), Some(Body(root)))) : root \in documents}

\* A SignedIdentifier with the optional children of `has`.
AccessPolicyElement(has, start) ==
    Element("AccessPolicy", None,
        (IF "Start" \in has THEN <<Leaf("Start", start)>> ELSE <<>>)
        \o (IF "Expiry" \in has THEN <<Leaf("Expiry", "2018-01-02T00:00:00Z")>> ELSE <<>>)
        \o (IF "Permission" \in has THEN <<Leaf("Permission", "rw")>> ELSE <<>>))

SignedIdentifierElements ==
    {Element("SignedIdentifier", None,
         <<Leaf("Id", id), AccessPolicyElement(has, "Mon, 01 Jan 2018 00:00:00 GMT")>>) :
        id \in Names, has \in SUBSET {"Start", "Expiry", "Permission"}}
    \cup {Element("SignedIdentifier", None,
              <<AccessPolicyElement({"Start", "Expiry", "Permission"},
                                    "Mon, 01 Jan 2018 00:00:00 GMT")>>),
          Element("SignedIdentifier", None, <<Leaf("Id", "a")>>),
          Element("SignedIdentifier", None,
              <<Leaf("Id", "a"), AccessPolicyElement({"Start"}, "yesterday")>>),
          Element("SignedIdentifier", None,
              <<Leaf("Id", "a"), Element("AccessPolicy", None, <<Empty("Expiry")>>)>>)}

SignedIdentifiersDocuments ==
    {Element("SignedIdentifiers", None, identifiers) :
        identifiers \in SeqsUpTo(SignedIdentifierElements, MaxIdentifiers)}

RetentionPolicyElement(days) ==
    Element("RetentionPolicy", None, <<Leaf("Enabled", "true")>> \o days)

LoggingElements ==
    {<<>>,
     <<Element("Logging", None,
           <<Leaf("Version", "1.0"), Leaf("Delete", "True"), Leaf("Read", "false"),
             Leaf("Write", "true"), RetentionPolicyElement(<<Leaf("Days", "5")>>)>>)>>,
     <<Element("Logging", None,
           <<Leaf("Delete", "True"), Leaf("Read", "false"), Leaf("Write", "true"),
             RetentionPolicyElement(<<>>)>>)>>}

MetricsElements(tag) ==
    {<<>>,
     <<Element(tag, None,
           <<Leaf("Version", "1.0"), Leaf("Enabled", "true"), Leaf("IncludeAPIs", "false"),
             RetentionPolicyElement(<<Leaf("Days", "15")>>)>>)>>,
     <<Element(tag, None,
           <<Leaf("Version", "1.0"), Leaf("Enabled", "False"), RetentionPolicyElement(<<>>)>>)>>}

\* A child of a CorsRule: left out, empty, or with its text.
RuleChild(tag, text, lacks, empty) ==
    IF tag \in lacks THEN <<>> ELSE IF tag \in empty THEN <<Empty(tag)>> ELSE <<Leaf(tag, text)>>

CorsRuleElement(lacks, empty) ==
    Element("CorsRule", None,
        RuleChild("AllowedOrigins", "a.com,b.com", lacks, empty)
        \o RuleChild("AllowedMethods", "GET,PUT", lacks, empty)
        \o RuleChild("MaxAgeInSeconds", "5", lacks, empty)
        \o RuleChild("ExposedHeaders", "x-ms-meta-data*,x-ms-request-id", lacks, empty)
        \o RuleChild("AllowedHeaders", "*", lacks, empty))

CorsRuleElements ==
    {CorsRuleElement(lacks, {}) :
        lacks \in {{}, {"AllowedOrigins"}, {"AllowedMethods"}, {"MaxAgeInSeconds"},
                   {"ExposedHeaders"}, {"AllowedHeaders"}, {"ExposedHeaders", "AllowedHeaders"}}}
    \cup {CorsRuleElement({}, empty) :
              empty \in {{"ExposedHeaders"}, {"AllowedHeaders"},
                         {"ExposedHeaders", "AllowedHeaders"}}}

\* Every combination of the optional sections around at most one full rule,
\* and every sequence of rules inside a document with all the sections.
ServicePropertiesDocuments ==
    {Element("StorageServiceProperties", None, logging \o hour \o minute \o cors \o version) :
        logging \in LoggingElements,
        hour \in MetricsElements("HourMetrics"),
        minute \in MetricsElements("MinuteMetrics"),
        cors \in {<<>>, <<Element("Cors", None, <<>>)>>,
                  <<Element("Cors", None, <<CorsRuleElement({}, {})>>)>>},
        version \in {<<>>, <<Leaf("DefaultServiceVersion", "2015-04-05")>>}}
    \cup {Element("StorageServiceProperties", None, <<Element("Cors", None, rules)>>) :
              rules \in SeqsUpTo(CorsRuleElements, MaxRules)}

\* The headers of the responses _parse_properties is called with: the
\* selections of at most MaxHeaders headers of the pool, in its order, and a
\* content-length that is no number.
HeaderPool ==
    << <<<<"etag">>, Some("0x8D5")>>,
       <<<<"content-length">>, Some("511")>>,
       <<<<"content-type">>, Some("text/plain")>>,
       <<<<"x-ms-meta-", "foo">>, Some("bar")>>,
       <<<<"x-", "unknown">>, Some("u")>> >>

Selection(I) ==
    [k \in 1..Cardinality(I) |->
        HeaderPool[CHOOSE i \in I : Cardinality({j \in I : j <= i}) = k]]

HeaderLists ==
    {Selection(I) : I \in {J \in SUBSET DOMAIN HeaderPool : Cardinality(J) <= MaxHeaders}}
    \cup {<< <<<<"x-ms-meta-", "foo">>, Some("baz")>>, <<<<"content-length">>, Some("x")>> >>}

PropertyResponses ==
    {None, Some(Response(None, Some(Malformed)))}
    \cup {Some(Response(Some(headers), Some(Malformed))) : headers \in HeaderLists}

\* The xml argument of the two parsers that take the body itself.
Xml(documents) == {Some(Malformed)} \cup {Some(Body(root)) : root \in documents}

----------------------------------------------------------------------------
(* The calls *)

\* A call runs to completion in one step, from the state where no call is pending.
Call(name, argument, outcome) ==
    /\ op = "none"
    /\ op' = name
    /\ arg' = argument
    /\ result' = Outcome(outcome)

Call_convert_xml_to_shares ==
    \E response \in Responses(SharesDocuments) :
        /\ Call("_convert_xml_to_shares", response, convert_xml_to_shares(response))
        /\ UNCHANGED <<propVars, headerVars>>

Call_convert_xml_to_directories_and_files ==
    \E response \in Responses(EntriesDocuments) :
        /\ Call("_convert_xml_to_directories_and_files", response,
                convert_xml_to_directories_and_files(response))
        /\ UNCHANGED <<propVars, headerVars>>

Call_convert_xml_to_ranges ==
    \E response \in Responses(RangesDocuments) :
        /\ Call("_convert_xml_to_ranges", response, convert_xml_to_ranges(response))
        /\ UNCHANGED <<propVars, headerVars>>

Call_convert_xml_to_share_stats ==
    \E response \in Responses(ShareStatsDocuments) :
        /\ Call("_convert_xml_to_share_stats", response, convert_xml_to_share_stats(response))
        /\ UNCHANGED <<propVars, headerVars>>

Call_convert_xml_to_signed_identifiers ==
    \E xml \in Xml(SignedIdentifiersDocuments) :
        /\ Call("_convert_xml_to_signed_identifiers", xml,
                convert_xml_to_signed_identifiers(xml))
        /\ UNCHANGED <<propVars, headerVars>>

Call_convert_xml_to_service_properties ==
    \E xml \in Xml(ServicePropertiesDocuments) :
        /\ Call("_convert_xml_to_service_properties", xml,
                convert_xml_to_service_properties(xml))
        /\ UNCHANGED <<propVars, headerVars>>

\* The calls that allocate on the heap, while it has room for their objects.
Call_parse_properties ==
    \E response \in PropertyResponses :
        LET parsed == parse_properties(heap, response)
        IN  /\ op = "none"
            /\ Len(heap) + 2 <= MaxObjects
            /\ op' = "_parse_properties"
            /\ arg' = response
            /\ heap' = parsed.heap
            /\ result' = IF parsed.ok
                         THEN Returned(Some([class |-> "tuple", props |-> parsed.props,
                                             metadata |-> parsed.metadata]))
                         ELSE Raised(parsed.exc)
            /\ UNCHANGED <<table, headerVars>>

Call_parse_file ==
    \E response \in PropertyResponses :
        LET parsed == parse_file(heap, response)
        IN  /\ op = "none"
            /\ Len(heap) + 3 <= MaxObjects
            /\ op' = "_parse_file"
            /\ arg' = response
            /\ heap' = parsed.heap
            /\ result' = IF parsed.ok
                         THEN Returned(Some([class |-> "ref", file |-> parsed.file]))
                         ELSE Raised(parsed.exc)
            /\ UNCHANGED <<table, headerVars>>

\* The caller takes what the call returned or raised; the parse tree and the
\* result are the caller's from here on, and nothing of the call stays behind.
Return ==
    /\ op /= "none"
    /\ op' = "none"
    /\ arg' = None
    /\ result' = Returned(None)
    /\ UNCHANGED <<propVars, headerVars>>

----------------------------------------------------------------------------
(* Outgoing header builder: azure/storage/file/_serialization.py *)

\* Faulty variant: the request signed before the content type is appended
update_storage_file_header_sign_early ==
    <<"_update_storage_header", "append x-ms-date", "sign_request",
      "append Content-Type", "return">>

\* The statements of _update_storage_file_header, in order.
update_storage_file_header ==
    <<"_update_storage_header", "append x-ms-date", "append Content-Type",
      "sign_request", "return">>

At(statement) == pc \in DOMAIN update_storage_file_header
                 /\ update_storage_file_header[pc] = statement

\* The headers a caller has put on the request, the headers the generic
\* step adds to it, the times format_date_time(time()) may give, and what the
\* signer adds to the request it signs.
CallerHeaders == {<<"x-ms-range", "bytes=0-511">>, <<"x-ms-meta-foo", "bar">>}
GenericHeaders == {<<>>, << <<"x-ms-version", "2015-04-05">> >>,
                   << <<"x-ms-version", "2015-04-05">>, <<"User-Agent", "sdk">> >>}
Times == {"Mon, 01 Jan 2018 00:00:00 GMT", "Tue, 02 Jan 2018 00:00:00 GMT"}
SignerHeaders == {<<>>, << <<"Authorization", "SharedKey account:signature">> >>}

\* A caller calls _update_storage_file_header(request, authentication).
Call_update_storage_file_header ==
    \E headers \in SeqsUpTo(CallerHeaders, MaxRequestHeaders) :
        /\ pc = 0
        /\ request' = Some([class |-> "Request", headers |-> headers])
        /\ pc' = 1
        /\ updated' = FALSE
        /\ signed' = <<>>
        /\ returned' = None
        /\ UNCHANGED <<xmlVars, propVars>>

\* request = _update_storage_header(request): the generic step, which adds
\* its headers and returns the request.
UpdateStorageHeader ==
    \E generic \in GenericHeaders :
        /\ At("_update_storage_header")
        /\ request' = Some([request[1] EXCEPT !.headers = @ \o generic])
        /\ updated' = TRUE
        /\ pc' = pc + 1
        /\ UNCHANGED <<signed, returned, xmlVars, propVars>>

\* current_time = format_date_time(time()); request.headers.append(('x-ms-date', current_time))
AppendDate ==
    \E current_time \in Times :
        /\ At("append x-ms-date")
        /\ request' = Some([request[1] EXCEPT !.headers = Append(@, <<"x-ms-date", current_time>>)])
        /\ pc' = pc + 1
        /\ UNCHANGED <<updated, signed, returned, xmlVars, propVars>>

\* request.headers.append(('Content-Type', 'application/octet-stream Charset=UTF-8'))
AppendContentType ==
    /\ At("append Content-Type")
    /\ request' = Some([request[1] EXCEPT
                          !.headers = Append(@, <<"Content-Type",
                                                  "application/octet-stream Charset=UTF-8">>)])
    /\ pc' = pc + 1
    /\ UNCHANGED <<updated, signed, returned, xmlVars, propVars>>

\* authentication.sign_request(request): the signer is handed the request as
\* it stands and may add its header to it.
SignRequest ==
    \E signature \in SignerHeaders :
        /\ At("sign_request")
        /\ signed' = Append(signed, [headers |-> request[1].headers, updated |-> updated])
        /\ request' = Some([request[1] EXCEPT !.headers = @ \o signature])
        /\ pc' = pc + 1
        /\ UNCHANGED <<updated, returned, xmlVars, propVars>>

\* return request.headers
ReturnHeaders ==
    /\ At("return")
    /\ returned' = Some(request[1].headers)
    /\ pc' = 0
    /\ UNCHANGED <<request, updated, signed, xmlVars, propVars>>

----------------------------------------------------------------------------
(* Specifications *)

Init ==
    /\ op = "none"
    /\ arg = None
    /\ result = Returned(None)
    /\ table = GET_PROPERTIES_ATTRIBUTE_MAP
    /\ heap = <<>>
    /\ request = None
    /\ pc = 0
    /\ updated = FALSE
    /\ signed = <<>>
    /\ returned = None

Next ==
    \/ Call_convert_xml_to_shares
    \/ Call_convert_xml_to_directories_and_files
    \/ Call_convert_xml_to_ranges
    \/ Call_convert_xml_to_share_stats
    \/ Call_convert_xml_to_signed_identifiers
    \/ Call_convert_xml_to_service_properties
    \/ Return

Spec == Init /\ [][Next]_vars

\* The header extractor and its caller _parse_file, on a heap, among calls
\* of an XML converter.
NextProperties ==
    \/ Call_parse_properties
    \/ Call_parse_file
    \/ Call_convert_xml_to_share_stats
    \/ Return

SpecProperties == Init /\ [][NextProperties]_vars

\* The outgoing header builder, statement by statement.
NextHeaders ==
    \/ Call_update_storage_file_header
    \/ UpdateStorageHeader
    \/ AppendDate
    \/ AppendContentType
    \/ SignRequest
    \/ ReturnHeaders

SpecHeaders == Init /\ [][NextHeaders]_vars

----------------------------------------------------------------------------
(* Properties.  The documents are read here through Has, Child and Rank,   *)
(* not through find, findall and findtext, which the parsers use.          *)

ListingParsers == {"_convert_xml_to_shares", "_convert_xml_to_directories_and_files",
                   "_convert_xml_to_ranges", "_convert_xml_to_share_stats"}
MarkerParsers == {"_convert_xml_to_shares", "_convert_xml_to_directories_and_files"}

Positions(element, tag) == {i \in DOMAIN element.children : element.children[i].tag = tag}
Has(element, tag) == Positions(element, tag) /= {}
\* The first child with that tag (there is one).
Child(element, tag) ==
    element.children[CHOOSE i \in Positions(element, tag) :
                        \A j \in Positions(element, tag) : i <= j]
\* How many children with that tag stand at or before position i.
Rank(element, tag, i) == Cardinality({j \in Positions(element, tag) : j <= i})

BodyPresent == arg /= None /\ arg[1].body /= None
Root == arg[1].body[1].root
Typed == result.kind = "returned" /\ result.value /= None
         /\ result.value[1].class /= "Response"

\* C2: a listing parser given no response, or a response without a body,
\* returns the very response it was given (no new collection, no error), and
\* it returns a typed result only when the body is present.
C2_AbsentBodyPassthrough ==
    op \in ListingParsers =>
        /\ (arg = None \/ arg[1].body = None) => result = Returned(arg)
        /\ Typed => BodyPresent
        /\ (BodyPresent /\ result.kind = "returned") => Typed

C2_Witness ==
    /\ op \in ListingParsers
    /\ arg /= None /\ arg[1].body = None /\ arg[1].headers /= None
    /\ result = Returned(arg)

\* C7: next_marker of a shares or directories-and-files result is None or a
\* non-empty string: None without a NextMarker element or with an empty one,
\* the element's text otherwise.
C7_NextMarker ==
    (op \in MarkerParsers /\ Typed) =>
        LET next_marker == result.value[1].next_marker
        IN  /\ next_marker /= Some("")
            /\ ~Has(Root, "NextMarker") => next_marker = None
            /\ Has(Root, "NextMarker") =>
                   IF Child(Root, "NextMarker").text = None
                   THEN next_marker = None
                   ELSE next_marker = Child(Root, "NextMarker").text

C7_Witness ==
    /\ op \in MarkerParsers /\ Typed
    /\ Has(Root, "NextMarker") /\ Child(Root, "NextMarker").text = None
    /\ result.value[1].next_marker = None

\* C8: files are exactly the File elements and directories exactly the
\* Directory elements of Entries, each in document order.
C8_FilesAndDirectoriesInOrder ==
    (op = "_convert_xml_to_directories_and_files" /\ Typed) =>
        LET entries == Child(Root, "Entries")
            files == result.value[1].files
            directories == result.value[1].directories
        IN  /\ Len(files) = Cardinality(Positions(entries, "File"))
            /\ Len(directories) = Cardinality(Positions(entries, "Directory"))
            /\ \A i \in Positions(entries, "File") :
                   LET file == files[Rank(entries, "File", i)]
                       element == entries.children[i]
                   IN  /\ Has(element, "Name") => file.name = Child(element, "Name").text
                       /\ ~Has(element, "Name") => file.name = None
            /\ \A i \in Positions(entries, "Directory") :
                   LET directory == directories[Rank(entries, "Directory", i)]
                       element == entries.children[i]
                   IN  /\ Has(element, "Name") => directory.name = Child(element, "Name").text
                       /\ ~Has(element, "Name") => directory.name = None

\* File, Directory, File with different names.
C8_Witness ==
    /\ op = "_convert_xml_to_directories_and_files" /\ Typed
    /\ LET entries == Child(Root, "Entries")
       IN  /\ Len(entries.children) = 3
           /\ entries.children[1].tag = "File"
           /\ entries.children[2].tag = "Directory"
           /\ entries.children[3].tag = "File"
           /\ result.value[1].files[1].name = Some("a")
           /\ result.value[1].files[2].name = Some("b")
           /\ Len(result.value[1].directories) = 1

\* The elements a listing parser makes records of, in document order.
Listed ==
    CASE op = "_convert_xml_to_shares" ->
            IF Has(Root, "Shares")
            THEN SelectSeq(Child(Root, "Shares").children, LAMBDA e : e.tag = "Share")
            ELSE <<>>
      [] op = "_convert_xml_to_directories_and_files" ->
            IF Has(Root, "Entries")
            THEN SelectSeq(Child(Root, "Entries").children,
                           LAMBDA e : e.tag \in {"File", "Directory"})
            ELSE <<>>
      [] op = "_convert_xml_to_ranges" ->
            SelectSeq(Root.children, LAMBDA e : e.tag = "Range")
      [] op = "_convert_xml_to_share_stats" -> <<Root>>

\* The children whose absence makes the code raise.
LacksFatal(e) ==
    CASE e.tag = "Share" ->
            \/ ~Has(e, "Properties")
            \/ ~Has(Child(e, "Properties"), "Last-Modified")
            \/ ~Has(Child(e, "Properties"), "Quota")
      [] e.tag = "File" ->
            \/ ~Has(e, "Properties")
            \/ ~Has(Child(e, "Properties"), "Content-Length")
      [] e.tag = "Directory" -> FALSE
      [] e.tag = "Range" -> ~Has(e, "Start") \/ ~Has(e, "End")
      [] e.tag = "ShareStats" -> ~Has(e, "ShareUsage")

\* The children the code reads with findtext and stores as they come.
LacksTolerated(e) ==
    CASE e.tag = "Share" ->
            \/ ~Has(e, "Name")
            \/ Has(e, "Properties") /\ ~Has(Child(e, "Properties"), "Etag")
      [] e.tag \in {"File", "Directory"} -> ~Has(e, "Name")
      [] OTHER -> FALSE

\* The children the claim calls required.
LacksRequired(e) == LacksFatal(e) \/ LacksTolerated(e)

SomeLacksRequired == \E i \in DOMAIN Listed : LacksRequired(Listed[i])
SomeLacksFatal == \E i \in DOMAIN Listed : LacksFatal(Listed[i])
WellFormedBody == BodyPresent /\ arg[1].body[1].wellformed
LacksContainer ==
    \/ op = "_convert_xml_to_shares" /\ ~Has(Root, "Shares")
    \/ op = "_convert_xml_to_directories_and_files" /\ ~Has(Root, "Entries")

\* The records of a typed result, in order.
Records ==
    CASE op = "_convert_xml_to_shares" -> result.value[1].list
      [] op = "_convert_xml_to_directories_and_files" ->
            result.value[1].files \o result.value[1].directories
      [] op = "_convert_xml_to_ranges" -> result.value[1].list
      [] op = "_convert_xml_to_share_stats" -> <<result.value[1]>>

Identifiers == SelectSeq(arg[1].root.children, LAMBDA e : e.tag = "SignedIdentifier")
\* Start and Expiry, where present, hold a timestamp.
ParsableTimes(e) ==
    \A tag \in {"Start", "Expiry"} :
        Has(Child(e, "AccessPolicy"), tag) =>
            /\ Child(Child(e, "AccessPolicy"), tag).text /= None
            /\ Child(Child(e, "AccessPolicy"), tag).text[1] \in Timestamps
Complete(e) == Has(e, "Id") /\ Has(e, "AccessPolicy")

\* C10: for SignedIdentifier elements with an Id and an AccessPolicy, a
\* missing Start, Expiry or Permission never makes the call raise; the
\* mapping has an entry under each Id, and the entry of an element (the last
\* one with its Id, as a later element replaces the entry) has start and
\* expiry set exactly when the elements are there and permission equal to
\* the Permission text, or None without a Permission element.
C10_OptionalPolicyChildren ==
    (op = "_convert_xml_to_signed_identifiers" /\ arg[1].wellformed) =>
        /\ (\A i \in DOMAIN Identifiers : Complete(Identifiers[i]) /\ ParsableTimes(Identifiers[i]))
               => Typed
        /\ Typed =>
               LET signed_identifiers == result.value[1].dict
               IN  /\ DOMAIN signed_identifiers =
                          {Child(Identifiers[i], "Id").text : i \in DOMAIN Identifiers}
                   /\ \A i \in DOMAIN Identifiers :
                          LET id == Child(Identifiers[i], "Id").text
                              policy == Child(Identifiers[i], "AccessPolicy")
                              entry == signed_identifiers[id]
                          IN  (\A j \in DOMAIN Identifiers :
                                   j > i => Child(Identifiers[j], "Id").text /= id)
                              => /\ entry.start /= None <=> Has(policy, "Start")
                                 /\ entry.expiry /= None <=> Has(policy, "Expiry")
                                 /\ Has(policy, "Start") =>
                                        entry.start = Some(datetime(Child(policy, "Start").text[1]))
                                 /\ Has(policy, "Expiry") =>
                                        entry.expiry = Some(datetime(Child(policy, "Expiry").text[1]))
                                 /\ Has(policy, "Permission") =>
                                        entry.permission = Child(policy, "Permission").text
                                 /\ ~Has(policy, "Permission") => entry.permission = None

\* An identifier without Start and Permission, parsed to an entry with both None.
C10_Witness ==
    /\ op = "_convert_xml_to_signed_identifiers" /\ arg[1].wellformed /\ Typed
    /\ \E i \in DOMAIN Identifiers :
           LET policy == Child(Identifiers[i], "AccessPolicy")
               entry == result.value[1].dict[Child(Identifiers[i], "Id").text]
           IN  /\ ~Has(policy, "Permission") /\ ~Has(policy, "Start") /\ Has(policy, "Expiry")
               /\ entry.permission = None /\ entry.start = None /\ entry.expiry /= None

\* The CorsRule elements of the document, in order.
Rules ==
    IF Has(arg[1].root, "Cors")
    THEN SelectSeq(Child(arg[1].root, "Cors").children, LAMBDA e : e.tag = "CorsRule")
    ELSE <<>>
\* A rule with text in AllowedOrigins, AllowedMethods and MaxAgeInSeconds.
HasRequired(rule) ==
    \A tag \in {"AllowedOrigins", "AllowedMethods", "MaxAgeInSeconds"} :
        Has(rule, tag) /\ Child(rule, tag).text /= None
\* The document holds a Cors section and none of the sections parsed before it.
CorsOnly ==
    /\ Has(arg[1].root, "Cors")
    /\ \A tag \in {"Logging", "HourMetrics", "MinuteMetrics"} : ~Has(arg[1].root, tag)

\* C3 as stated: ExposedHeaders and AllowedHeaders are optional children of
\* a CorsRule: a document whose rules all have AllowedOrigins,
\* AllowedMethods and MaxAgeInSeconds parses without an error, every rule is
\* appended to cors, and a rule without the ExposedHeaders (AllowedHeaders)
\* element has exposed_headers (allowed_headers) unset.
C3_HeaderListsOptional ==
    (/\ op = "_convert_xml_to_service_properties" /\ arg[1].wellformed
     /\ CorsOnly
     /\ \A i \in DOMAIN Rules : HasRequired(Rules[i])) =>
        /\ Typed
        /\ result.value[1].cors /= None
        /\ Len(result.value[1].cors[1]) = Len(Rules)
        /\ \A i \in DOMAIN Rules :
               /\ ~Has(Rules[i], "ExposedHeaders") =>
                      result.value[1].cors[1][i].exposed_headers = None
               /\ ~Has(Rules[i], "AllowedHeaders") =>
                      result.value[1].cors[1][i].allowed_headers = None

PropertyParsers == {"_parse_properties", "_parse_file"}
\* The metadata mapping the last call returned.
ReturnedMetadata ==
    IF op = "_parse_file" THEN heap[heap[result.value[1].file].metadata].dict
    ELSE heap[result.value[1].metadata].dict
ReturnedProperties ==
    IF op = "_parse_file" THEN heap[heap[result.value[1].file].properties]
    ELSE heap[result.value[1].props]
IsMetadataHeader(key) == key[1] = "x-ms-meta-" /\ key \notin DOMAIN GET_PROPERTIES_ATTRIBUTE_MAP

\* C1 as stated: every header whose name starts with 'x-ms-meta-' and is not
\* in the table gives the metadata entry (name without the prefix -> value),
\* and no metadata key carries the prefix.
C1_MetadataKeysStripped ==
    (op \in PropertyParsers /\ result.kind = "returned") =>
        /\ \A i \in DOMAIN arg[1].headers[1] :
               LET key == arg[1].headers[1][i][1]
                   value == arg[1].headers[1][i][2]
               IN  IsMetadataHeader(key) =>
                       /\ Tail(key) \in DOMAIN ReturnedMetadata
                       /\ ReturnedMetadata[Tail(key)] = value
        /\ \A key \in DOMAIN ReturnedMetadata : key[1] /= "x-ms-meta-"

\* C6 as stated: for a response without headers the call returns a pair of
\* empty results and does not raise.
C6_NoHeadersReturnsEmpty ==
    (op = "_parse_properties" /\ arg /= None /\ arg[1].headers = None) =>
        /\ result.kind = "returned"
        /\ result.value[1].props = 0 \/ ReturnedProperties = properties_class
        /\ result.value[1].metadata = 0 \/ ReturnedMetadata = <<>>

\* C9: no call changes GET_PROPERTIES_ATTRIBUTE_MAP or an object an earlier
\* call allocated; what a call returns are objects it allocated itself, and
\* their contents are those the same call returns on an empty heap.
C9_FreshResultsTableUnchanged ==
    [][/\ table' = table
       /\ table = GET_PROPERTIES_ATTRIBUTE_MAP
       /\ \A a \in DOMAIN heap : a \in DOMAIN heap' /\ heap'[a] = heap[a]
       /\ (op = "none" /\ op' \in PropertyParsers /\ result'.kind = "returned") =>
              LET alone == parse_properties(<<>>, arg')
              IN  /\ DOMAIN heap' \ DOMAIN heap =
                         IF op' = "_parse_file"
                         THEN {heap'[result'.value[1].file].properties,
                               heap'[result'.value[1].file].metadata,
                               result'.value[1].file}
                         ELSE {result'.value[1].props, result'.value[1].metadata}
                  /\ ReturnedMetadata' = alone.heap[alone.metadata].dict
                  /\ ReturnedProperties' = alone.heap[alone.props]
       /\ (op = "none" /\ op' \notin PropertyParsers) => heap' = heap
      ]_vars

\* A second call returned an empty metadata mapping of its own while the
\* first call's mapping, with its entry, is still on the heap.
C9_Witness ==
    /\ op = "_parse_properties" /\ result.kind = "returned"
    /\ result.value[1].metadata = 4
    /\ heap[2].class = "dict" /\ heap[2].dict /= <<>>
    /\ heap[4].dict = <<>>
    /\ heap[3].attrs /= heap[1].attrs

HasHeader(headers, name) == \E i \in DOMAIN headers : headers[i][1] = name
ContentType == <<"Content-Type", "application/octet-stream Charset=UTF-8">>

\* C5: sign_request is invoked once, as the last step that changes the
\* request: the request it is given went through the generic header update
\* and holds the x-ms-date and the Content-Type entries; once it is signed
\* the builder appends nothing; and the value returned is the header
\* collection of the signed request.
C5_SignedLast ==
    /\ [](/\ Len(signed) <= 1
          /\ \A i \in DOMAIN signed :
                 /\ signed[i].updated
                 /\ HasHeader(signed[i].headers, "x-ms-date")
                 /\ \E j \in DOMAIN signed[i].headers : signed[i].headers[j] = ContentType
          /\ returned /= None =>
                 /\ Len(signed) = 1
                 /\ returned = Some(request[1].headers)
                 /\ SubSeq(returned[1], 1, Len(signed[1].headers)) = signed[1].headers)
    /\ [][(Len(signed) = 1 /\ Len(signed') = 1) => request' = request]_vars

\* A call has returned the headers of a request the signer added its header to.
C5_Witness ==
    /\ pc = 0 /\ returned /= None
    /\ Len(signed) = 1
    /\ HasHeader(returned[1], "Authorization")
    /\ HasHeader(returned[1], "x-ms-version")
    /\ ~HasHeader(signed[1].headers, "Authorization")

====
